---- MODULE Spec2Model ----
(***************************************************************************)
(* A model of docker.js (src/src/docker.js): the section parser            *)
(* (Docker.prototype.parseSections) as a line-by-line state machine over   *)
(* texts of characters, and the file driver (doc / docFile / queueFile /   *)
(* nextFile / generateDoc) as a set of pending node.js callbacks, alone    *)
(* and with fairness, and the path computations of renderHtml on strings.  *)
(***************************************************************************)
EXTENDS Integers, Sequences, FiniteSets, TLC

\* ------------------------------------------------------------------------
\* Bounds
\* ------------------------------------------------------------------------
\* Largest number of lines (separated by "\n") of an input text.
MaxLines == 3
\* Largest number of paths handed to doc() on the command line.
MaxArgs == 2
\* Largest number of "../" the loop of renderHtml is followed for.
MaxRelDir == 3

\* ------------------------------------------------------------------------
\* Texts.  A JavaScript string is a sequence of one-character strings.
\* ------------------------------------------------------------------------
NL == "\n"

Range(f) == { f[k] : k \in DOMAIN f }

\* The characters matched by \s that occur in the modelled texts.
IsSpace(c) == c \in {" ", "\t", "\n"}

\* pat occurs in s starting at position k (1-based).
MatchAt(s, k, pat) ==
  /\ k >= 1
  /\ k + Len(pat) - 1 <= Len(s)
  /\ \A j \in 1..Len(pat) : s[k + j - 1] = pat[j]

\* An unanchored literal regex: pat occurs somewhere in s.
Contains(s, pat) == \E k \in 1..(Len(s) + 1) : MatchAt(s, k, pat)

\* Length of the longest prefix of s made of \s characters (the greedy ^\s*).
RECURSIVE SpaceRun(_, _)
SpaceRun(s, k) ==
  IF k <= Len(s) /\ IsSpace(s[k]) THEN SpaceRun(s, k + 1) ELSE k - 1

\* /^\s*$/ : the whole text is white space (the empty text included).
IsBlank(s) == \A k \in 1..Len(s) : IsSpace(s[k])

\* ------------------------------------------------------------------------
\* languageParams('.js')
\* ------------------------------------------------------------------------
Slashes == <<"/", "/">>

\* commentRegex  /^\s*\/\/\s?/ : does the line match.
commentRegex(line) == MatchAt(line, SpaceRun(line, 1) + 1, Slashes)

\* Number of characters commentRegex matches at the start of the line:
\* the white space, the two slashes and at most one \s after them.
commentRegexLen(line) ==
  LET n == SpaceRun(line, 1) + 2
  IN  IF n + 1 <= Len(line) /\ IsSpace(line[n + 1]) THEN n + 1 ELSE n

\* line.replace(params.commentRegex, '')
StripComment_KeepSpace(line) ==
  IF commentRegex(line)
    THEN SubSeq(line, SpaceRun(line, 1) + 3, Len(line))
    ELSE line

StripComment(line) ==
  IF commentRegex(line)
    THEN SubSeq(line, commentRegexLen(line) + 1, Len(line))
    ELSE line

\* commentsIgnore  /^\s*\/\/=/
commentsIgnore(line) ==
  MatchAt(line, SpaceRun(line, 1) + 1, <<"/", "/", "=">>)

\* multilineStart  /\/\*/
multilineStart(line) == Contains(line, <<"/", "*">>)

\* multilineEnd  /\*\//
multilineEnd(line) == Contains(line, <<"*", "/">>)

\* ------------------------------------------------------------------------
\* Input texts
\* ------------------------------------------------------------------------
LineEmpty        == << >>
LineSpace        == <<" ">>
LineCode         == <<"v", "a", "r", " ", "x", " ", "=", " ", "1", ";">>
LineComment      == <<"/", "/", " ", "h", "e", "l", "l", "o">>
LineCommentBare  == <<"/", "/">>
LineIgnore       == <<"/", "/", "=", " ", "r">>
LineMultiStart   == <<"/", "*", "*">>
LineMultiBody    == <<" ", "*", " ", "@", "p">>
LineMultiEnd     == <<" ", "*", "/">>
LineSelfClosing  == <<"/", "*", " ", "x", " ", "*", "/">>
LineIgnoreStart  == <<"/", "/", "=", " ", "/", "*">>
LineSelfClosingComment == <<"/", "/", "/", "*", "*", "/">>
LineSelfClosingIgnore  == <<"/", "/", "=", "/", "*", "*", "/">>

LineAlphabet ==
  { LineEmpty, LineSpace, LineCode, LineComment, LineCommentBare, LineIgnore,
    LineMultiStart, LineMultiBody, LineMultiEnd, LineSelfClosing,
    LineIgnoreStart, LineSelfClosingComment, LineSelfClosingIgnore }

\* lines.join('\n')
RECURSIVE JoinLines(_)
JoinLines(ls) ==
  IF Len(ls) = 0 THEN << >>
  ELSE IF Len(ls) = 1 THEN ls[1]
  ELSE ls[1] \o <<NL>> \o JoinLines(Tail(ls))

\* Every text of 1..MaxLines lines over the alphabet; the empty text is the
\* text of the single line LineEmpty.
Texts ==
  { JoinLines(ls) : ls \in UNION { [1..n -> LineAlphabet] : n \in 1..MaxLines } }

\* data.split('\n')
RECURSIVE SplitFrom(_, _, _)
SplitFrom(s, k, cur) ==
  IF k > Len(s) THEN <<cur>>
  ELSE IF s[k] = NL THEN <<cur>> \o SplitFrom(s, k + 1, << >>)
  ELSE SplitFrom(s, k + 1, Append(cur, s[k]))

Split_DropTrailingEmpty(s) ==
  LET r == SplitFrom(s, 1, << >>)
  IN  IF Len(r) > 1 /\ r[Len(r)] = << >> THEN SubSeq(r, 1, Len(r) - 1) ELSE r

Split(s) == SplitFrom(s, 1, << >>)

\* ------------------------------------------------------------------------
\* The parser's state
\* ------------------------------------------------------------------------
VARIABLES
  data,                \* the text handed to parseSections
  pc,                  \* "start", "loop" or "done": position in parseSections
  codeLines,           \* data.split('\n')
  i,                   \* loop index (1-based), the next line to look at
  sections,            \* the sections pushed so far
  section,             \* the section being accumulated
  inMultiLineComment,  \* inside an open multi-line comment
  multiLine,           \* raw text of the open multi-line comment
  multiLineSrc,        \* history: the indices of the lines held in multiLine
  kinds                \* history: the branch of the loop each line took

parseVars ==
  <<data, pc, codeLines, i, sections, section, inMultiLineComment, multiLine,
    multiLineSrc, kinds>>

\* { docs: '', code: '' }.  docSrc and codeSrc are history fields: the
\* indices of the input lines whose text was appended to docs and to code.
EmptySection == [docs |-> << >>, code |-> << >>, docSrc |-> << >>, codeSrc |-> << >>]

\* The local variables of parseSections as one record.
PS ==
  [sections |-> sections, section |-> section,
   inMultiLineComment |-> inMultiLineComment, multiLine |-> multiLine,
   multiLineSrc |-> multiLineSrc]

PS0 ==
  [sections |-> << >>, section |-> EmptySection,
   inMultiLineComment |-> FALSE, multiLine |-> << >>, multiLineSrc |-> << >>]

\* What the try block around dox.parseComments / doxTemplate can do: throw,
\* or return a rendered text (white space only, or not).
DoxThrow == [ok |-> FALSE, text |-> << >>]
DoxRendered == { [ok |-> TRUE, text |-> << >>],
                 [ok |-> TRUE, text |-> <<"<", "p", ">">>] }
DoxOutcomes == {DoxThrow} \cup DoxRendered

\* if(section.code){ if(!code.match(/^\s*$/) || !docs.match(/^\s*$/))
\*   sections.push(section);  section = { docs: '', code: '' }; }
Flush_NoCodeTest(st) ==
  [st EXCEPT
     !.sections = IF ~IsBlank(st.section.code) \/ ~IsBlank(st.section.docs)
                    THEN Append(@, st.section) ELSE @,
     !.section = EmptySection]

Flush_KeepBlank(st) ==
  IF st.section.code # << >>
    THEN [st EXCEPT !.sections = Append(@, st.section),
                    !.section = EmptySection]
    ELSE st

Flush_AndTest(st) ==
  IF st.section.code # << >>
    THEN [st EXCEPT
            !.sections = IF ~IsBlank(st.section.code) /\ ~IsBlank(st.section.docs)
                           THEN Append(@, st.section) ELSE @,
            !.section = EmptySection]
    ELSE st

Flush(st) ==
  IF st.section.code # << >>
    THEN [st EXCEPT
            !.sections = IF ~IsBlank(st.section.code) \/ ~IsBlank(st.section.docs)
                           THEN Append(@, st.section) ELSE @,
            !.section = EmptySection]
    ELSE st

\* The branch of the loop body that handles line, in the order of the
\* if / else-if chain.
BranchOf_NoSelfClosing(st, line) ==
  IF st.inMultiLineComment
    THEN IF multilineEnd(line) THEN "multilineEnd" ELSE "multilineBody"
  ELSE IF multilineStart(line) THEN "multilineStart"
  ELSE IF commentRegex(line) /\ ~commentsIgnore(line) THEN "singleLine"
  ELSE IF ~commentsIgnore(line) THEN "code"
  ELSE "ignored"

BranchOf(st, line) ==
  IF st.inMultiLineComment
    THEN IF multilineEnd(line) THEN "multilineEnd" ELSE "multilineBody"
  ELSE IF multilineStart(line) /\ ~multilineEnd(line) THEN "multilineStart"
  ELSE IF commentRegex(line) /\ ~commentsIgnore(line) THEN "singleLine"
  ELSE IF ~commentsIgnore(line) THEN "code"
  ELSE "ignored"

\* inMultiLineComment and the line matches multilineEnd
StepMultilineEnd(st, idx, line, dox) ==
  LET ml == st.multiLine \o line \o <<NL>>
      src == Append(st.multiLineSrc, idx)
  IN  [st EXCEPT
         !.inMultiLineComment = FALSE,
         !.section.docs = @ \o (IF dox.ok THEN dox.text ELSE ml),
         !.section.docSrc = @ \o src,
         !.multiLine = << >>,
         !.multiLineSrc = << >>]

\* inMultiLineComment and the line does not match multilineEnd
StepMultilineBody_Leak(st, idx, line) ==
  [st EXCEPT !.multiLine = @ \o line \o <<NL>>,
             !.multiLineSrc = Append(@, idx),
             !.section.code = @ \o line \o <<NL>>,
             !.section.codeSrc = Append(@, idx)]

StepMultilineBody(st, idx, line) ==
  [st EXCEPT !.multiLine = @ \o line \o <<NL>>,
             !.multiLineSrc = Append(@, idx)]

\* the line opens a multi-line comment
StepMultilineStart_NoFlush(st, idx, line) ==
  [st EXCEPT !.inMultiLineComment = TRUE,
             !.multiLine = line,
             !.multiLineSrc = <<idx>>]

StepMultilineStart(st, idx, line) ==
  [Flush(st) EXCEPT !.inMultiLineComment = TRUE,
                    !.multiLine = line,
                    !.multiLineSrc = <<idx>>]

\* a single-line comment
StepSingleLine(st, idx, line) ==
  LET f == Flush(st)
  IN  [f EXCEPT !.section.docs = @ \o StripComment(line) \o <<NL>>,
                !.section.docSrc = Append(@, idx)]

\* a line of code
StepCode_Prepend(st, idx, line) ==
  [st EXCEPT !.section.code = line \o <<NL>> \o @,
             !.section.codeSrc = <<idx>> \o @]

StepCode(st, idx, line) ==
  [st EXCEPT !.section.code = @ \o line \o <<NL>>,
             !.section.codeSrc = Append(@, idx)]

\* One iteration of the loop body.
Step(st, idx, line, dox) ==
  LET b == BranchOf(st, line)
  IN  CASE b = "multilineEnd"   -> StepMultilineEnd(st, idx, line, dox)
        [] b = "multilineBody"  -> StepMultilineBody(st, idx, line)
        [] b = "multilineStart" -> StepMultilineStart(st, idx, line)
        [] b = "singleLine"     -> StepSingleLine(st, idx, line)
        [] b = "code"           -> StepCode(st, idx, line)
        [] OTHER                -> st

\* sections.push(section); return sections;
Finish_SkipEmpty(st) ==
  IF st.section.code = << >> /\ st.section.docs = << >>
    THEN st.sections ELSE Append(st.sections, st.section)

Finish(st) == Append(st.sections, st.section)

SetPS(st) ==
  /\ sections' = st.sections
  /\ section' = st.section
  /\ inMultiLineComment' = st.inMultiLineComment
  /\ multiLine' = st.multiLine
  /\ multiLineSrc' = st.multiLineSrc

\* ------------------------------------------------------------------------
\* The file driver
\* ------------------------------------------------------------------------
VARIABLES
  args,            \* the paths handed to doc() by the command line
  called,          \* doc(args) has been called
  statPending,     \* paths whose fs.stat callback (docFile) has not fired yet
  readdirPending,  \* directories whose fs.readdir callback has not fired yet
  fileQueue,       \* this.fileQueue
  running,         \* this.running
  pipeline,        \* the generateDoc chains in progress: [file, stage]
  crashed,         \* an uncaught exception has ended the process
  accepted,        \* history: the files pushed on the queue, in order
  started,         \* history: the files generateDoc was called for, in order
  written,         \* history: the files whose page was written, in order
  statIssued,      \* history: the paths fs.stat was called for, in order
  unfedPage,       \* history: a page was written although pygmentize was not fed
  exited,          \* process.exit(1) has been called
  cssPresent,      \* doc-style.css exists in the output directory
  cssPending,      \* the number of stylesheet callbacks in flight, by stage
  cssCopies        \* history: the number of fs.writeFile calls for doc-style.css

\* what doc and docFile work on
walkVars == <<statPending, readdirPending, statIssued>>
\* the stylesheet copy of renderHtml
cssVars == <<cssPresent, cssPending, cssCopies>>
\* the ways the process ends
endVars == <<crashed, exited>>

driverVars ==
  <<args, called, walkVars, fileQueue, running, pipeline, endVars,
    accepted, started, written, unfedPage, cssVars>>

\* A path relative to inDir is the sequence of its segments; a segment is a
\* name with the extension path.extname finds in it.
Seg(name, ext) == [name |-> name, ext |-> ext]
pA       == <<Seg("a", ".js")>>
pNotes   == <<Seg("notes", ".md")>>
pGone    == <<Seg("gone", ".js")>>
pLib     == <<Seg("lib", "")>>

\* The files under inDir: pGone does not exist, pLib is a directory.
RootEntries == {pA, pNotes, pGone, pLib}
IsDirectory(p) == p = pLib
Exists(p) == p # pGone
\* What fs.readdir lists in a directory.
Listing(p) == IF p = pLib THEN <<Seg("c", ".js"), Seg("d", ".js")>> ELSE << >>

\* path.extname(filename)
ExtName(p) == p[Len(p)].ext

\* path.join(filename, name)
PathJoin(p, seg) == Append(p, seg)

\* Every sequence of 1..MaxArgs different root entries.
ArgLists ==
  { a \in UNION { [1..n -> RootEntries] : n \in 1..MaxArgs } :
      \A j, k \in DOMAIN a : j # k => a[j] # a[k] }

\* The fields of the Docker object and the chains it has started.
DS ==
  [fileQueue |-> fileQueue, running |-> running, pipeline |-> pipeline,
   accepted |-> accepted, started |-> started]

SetDS(d) ==
  /\ fileQueue' = d.fileQueue
  /\ running' = d.running
  /\ pipeline' = d.pipeline
  /\ accepted' = d.accepted
  /\ started' = d.started

canHandleFile(p) == ExtName(p) = ".js"

\* generateDoc up to the call of fs.readFile
generateDoc_NoFlag(d, f) ==
  [d EXCEPT !.pipeline = @ \cup {[file |-> f, stage |-> "read", fed |-> FALSE]},
            !.started = Append(@, f)]

generateDoc(d, f) ==
  [d EXCEPT !.running = TRUE,
            !.pipeline = @ \cup {[file |-> f, stage |-> "read", fed |-> FALSE]},
            !.started = Append(@, f)]

nextFile_Pop(d) ==
  IF Len(d.fileQueue) > 0
    THEN generateDoc([d EXCEPT !.fileQueue = SubSeq(@, 1, Len(@) - 1)],
                     d.fileQueue[Len(d.fileQueue)])
    ELSE [d EXCEPT !.running = FALSE]

nextFile_StaysRunning(d) ==
  IF Len(d.fileQueue) > 0
    THEN generateDoc([d EXCEPT !.fileQueue = Tail(@)], Head(d.fileQueue))
    ELSE d

nextFile(d) ==
  IF Len(d.fileQueue) > 0
    THEN generateDoc([d EXCEPT !.fileQueue = Tail(@)], Head(d.fileQueue))
    ELSE [d EXCEPT !.running = FALSE]

queueFile_AlwaysStart(d, f) ==
  IF ~canHandleFile(f) THEN d
  ELSE nextFile([d EXCEPT !.fileQueue = Append(@, f),
                          !.accepted = Append(@, f)])

queueFile(d, f) ==
  IF ~canHandleFile(f) THEN d
  ELSE LET q == [d EXCEPT !.fileQueue = Append(@, f),
                          !.accepted = Append(@, f)]
       IN  IF ~q.running THEN nextFile(q) ELSE q

\* The callbacks of the stylesheet copy: fs.stat, fs.readFile, fs.writeFile.
CssStages == {"stat", "read", "write"}

\* new Docker(inDir, outDir)
InitDocker ==
  /\ called = FALSE
  /\ statPending = {}
  /\ readdirPending = {}
  /\ fileQueue = << >>
  /\ running = FALSE
  /\ pipeline = {}
  /\ crashed = FALSE
  /\ accepted = << >>
  /\ started = << >>
  /\ written = << >>
  /\ statIssued = << >>
  /\ unfedPage = FALSE
  /\ exited = FALSE
  /\ cssPending = [st \in CssStages |-> 0]
  /\ cssCopies = 0

\* ------------------------------------------------------------------------
\* Paths as strings: the directories of the Docker object and the names
\* generateDoc and renderHtml compute from them
\* ------------------------------------------------------------------------
VARIABLES
  inDir,               \* this.inDir
  outDir,              \* this.outDir
  docFilename,         \* the filename generateDoc is called with
  filename,            \* path.join(this.inDir, filename), handed to renderHtml
  renderOutFile,       \* the local outFile of renderHtml
  renderOutDir,        \* the local outDir of renderHtml
  relDir,              \* the local relDir of renderHtml
  renderPc             \* position in generateDoc / renderHtml

renderVars ==
  <<inDir, outDir, docFilename, filename, renderOutFile, renderOutDir, relDir,
    renderPc>>

\* s.replace(/\/$/, '')
StripSlash(s) ==
  IF Len(s) > 0 /\ s[Len(s)] = "/" THEN SubSeq(s, 1, Len(s) - 1) ELSE s

\* s.replace(pat, rep) for a string pat: the first occurrence only
StrReplace(s, pat, rep) ==
  IF ~Contains(s, pat) THEN s
  ELSE LET k == CHOOSE k \in 1..(Len(s) + 1) :
                  /\ MatchAt(s, k, pat)
                  /\ \A j \in 1..(k - 1) : ~MatchAt(s, j, pat)
       IN  SubSeq(s, 1, k - 1) \o rep \o SubSeq(s, k + Len(pat), Len(s))

\* s.split('/')
RECURSIVE SplitSlash(_, _, _)
SplitSlash(s, k, cur) ==
  IF k > Len(s) THEN <<cur>>
  ELSE IF s[k] = "/" THEN <<cur>> \o SplitSlash(s, k + 1, << >>)
  ELSE SplitSlash(s, k + 1, Append(cur, s[k]))

\* parts.join('/')
RECURSIVE JoinSlash(_)
JoinSlash(parts) ==
  IF Len(parts) = 0 THEN << >>
  ELSE IF Len(parts) = 1 THEN parts[1]
  ELSE parts[1] \o <<"/">> \o JoinSlash(Tail(parts))

DotDot == <<".", ".">>

\* normalizeArray of node's path module: empty and "." parts are dropped, a
\* ".." takes away the part before it, and is kept in front of a relative
\* path when there is nothing to take away.  out is what is kept so far.
RECURSIVE normalizeArray(_, _, _)
normalizeArray(parts, allowAboveRoot, out) ==
  IF Len(parts) = 0 THEN out
  ELSE LET p == Head(parts)
           rest == Tail(parts)
       IN  IF p = << >> \/ p = <<".">>
             THEN normalizeArray(rest, allowAboveRoot, out)
           ELSE IF p # DotDot
             THEN normalizeArray(rest, allowAboveRoot, Append(out, p))
           ELSE IF Len(out) > 0 /\ out[Len(out)] # DotDot
             THEN normalizeArray(rest, allowAboveRoot, SubSeq(out, 1, Len(out) - 1))
           ELSE IF allowAboveRoot
             THEN normalizeArray(rest, allowAboveRoot, Append(out, p))
           ELSE normalizeArray(rest, allowAboveRoot, out)

\* path.normalize(p): a relative path that comes out empty is ".", and a
\* trailing slash is kept
path_normalize(p) ==
  LET isAbsolute == Len(p) > 0 /\ p[1] = "/"
      trailingSlash == Len(p) > 0 /\ p[Len(p)] = "/"
      kept == JoinSlash(normalizeArray(SplitSlash(p, 1, << >>), ~isAbsolute, << >>))
      body == IF kept = << >> /\ ~isAbsolute THEN <<".">> ELSE kept
      tail == IF body # << >> /\ trailingSlash THEN <<"/">> ELSE << >>
  IN  (IF isAbsolute THEN <<"/">> ELSE << >>) \o body \o tail

\* path.join(a, b): the arguments that are not empty, joined with "/" and
\* normalized
path_join(a, b) ==
  path_normalize(JoinSlash(SelectSeq(<<a, b>>, LAMBDA x : x # << >>)))

\* path.dirname(p) for a path p that does not end with a slash
path_dirname(p) ==
  LET slashes == { k \in 1..Len(p) : p[k] = "/" }
  IN  IF slashes = {} THEN <<".">>
      ELSE LET k == CHOOSE k \in slashes : \A j \in slashes : j <= k
           IN  IF k = 1 THEN <<"/">> ELSE SubSeq(p, 1, k - 1)

DotHtml == <<".", "h", "t", "m", "l">>

\* Docker.prototype.outFile
outFile(in, out, f) == StrReplace(f, in, out) \o DotHtml

\* The directories docker may be started with (-i and -o) and the files.
DirSrc       == <<"s", "r", "c">>
DirSrcSlash  == <<"s", "r", "c", "/">>
DirDotSrc    == <<".", "/", "s", "r", "c">>
DirDot       == <<".">>
DirDocs      == <<"d", "o", "c", "s">>
DirDocsSlash == <<"d", "o", "c", "s", "/">>
DirDotDocs   == <<".", "/", "d", "o", "c", "s">>
DirOutDocs   == <<"o", "u", "t", "/", "d", "o", "c", "s">>
FileA        == <<"a", ".", "j", "s">>
FileLibC     == <<"l", "i", "b", "/", "c", ".", "j", "s">>
FileLibSubE  == <<"l", "i", "b", "/", "s", "u", "b", "/", "e", ".", "j", "s">>

InDirArgs   == {DirSrc, DirSrcSlash, DirDotSrc, DirDot}
OutDirArgs  == {DirDocs, DirDocsSlash, DirDotDocs, DirOutDocs}
RenderFiles == {FileA, FileLibC, FileLibSubE}

\* No page is being rendered: docker was started as  -i src -o docs.
RenderIdle ==
  /\ inDir = DirSrc
  /\ outDir = DirDocs
  /\ docFilename = << >>
  /\ filename = << >>
  /\ renderOutFile = << >>
  /\ renderOutDir = << >>
  /\ relDir = << >>
  /\ renderPc = "idle"

InitParse ==
  /\ data \in Texts
  /\ pc = "start"
  /\ codeLines = << >>
  /\ i = 1
  /\ sections = << >>
  /\ section = EmptySection
  /\ inMultiLineComment = FALSE
  /\ multiLine = << >>
  /\ multiLineSrc = << >>
  /\ kinds = << >>
  /\ args = << >>
  /\ cssPresent = FALSE
  /\ InitDocker
  /\ RenderIdle

\* var codeLines = data.split('\n'); var sections = []; ...
ParseStart ==
  /\ pc = "start"
  /\ codeLines' = Split(data)
  /\ i' = 1
  /\ SetPS(PS0)
  /\ kinds' = << >>
  /\ pc' = "loop"
  /\ UNCHANGED <<data, driverVars, renderVars>>

\* One iteration of the for loop that takes branch b.
Iterate(b, dox) ==
  /\ pc = "loop"
  /\ i <= Len(codeLines)
  /\ BranchOf(PS, codeLines[i]) = b
  /\ SetPS(Step(PS, i, codeLines[i], dox))
  /\ kinds' = Append(kinds, IF b = "multilineEnd" /\ ~dox.ok THEN "multilineEndCatch" ELSE b)
  /\ i' = i + 1
  /\ UNCHANGED <<data, pc, codeLines, driverVars, renderVars>>

MultilineEndDox == \E dox \in DoxRendered : Iterate("multilineEnd", dox)
MultilineEndDoxError == Iterate("multilineEnd", DoxThrow)
MultilineBody == Iterate("multilineBody", DoxThrow)
MultilineStart == Iterate("multilineStart", DoxThrow)
SingleLine == Iterate("singleLine", DoxThrow)
CodeLine == Iterate("code", DoxThrow)
IgnoredLine == Iterate("ignored", DoxThrow)

\* the loop is over: sections.push(section); return sections;
ParseReturn ==
  /\ pc = "loop"
  /\ i > Len(codeLines)
  /\ sections' = Finish(PS)
  /\ pc' = "done"
  /\ UNCHANGED <<data, codeLines, i, section, inMultiLineComment, multiLine,
                 multiLineSrc, kinds, driverVars, renderVars>>

NextParse ==
  \/ ParseStart
  \/ MultilineEndDox
  \/ MultilineEndDoxError
  \/ MultilineBody
  \/ MultilineStart
  \/ SingleLine
  \/ CodeLine
  \/ IgnoredLine
  \/ ParseReturn

vars == <<parseVars, driverVars, renderVars>>

SpecParse == InitParse /\ [][NextParse]_vars

\* ------------------------------------------------------------------------
\* The callbacks of the file driver.  The contents of the files are not part
\* of this specification: parseSections runs inside the fs.readFile callback.
\* ------------------------------------------------------------------------
ParseIdle ==
  /\ data = << >>
  /\ pc = "start"
  /\ codeLines = << >>
  /\ i = 1
  /\ sections = << >>
  /\ section = EmptySection
  /\ inMultiLineComment = FALSE
  /\ multiLine = << >>
  /\ multiLineSrc = << >>
  /\ kinds = << >>

InitDriver ==
  /\ ParseIdle
  /\ args \in ArgLists
  /\ cssPresent \in BOOLEAN
  /\ InitDocker
  /\ RenderIdle

\* The process is still there: no uncaught exception, no process.exit.
Alive == ~crashed /\ ~exited

\* The children of a directory as fs.readdir lists them, joined to its path.
Children_Reversed(p) ==
  [k \in 1..Len(Listing(p)) |-> PathJoin(p, Listing(p)[Len(Listing(p)) + 1 - k])]

Children(p) == [k \in 1..Len(Listing(p)) |-> PathJoin(p, Listing(p)[k])]

\* doc(files): docFile(files[i]) for each i, each one calling fs.stat
Doc ==
  /\ ~called
  /\ called' = TRUE
  /\ statPending' = statPending \cup Range(args)
  /\ statIssued' = statIssued \o args
  /\ UNCHANGED <<args, readdirPending, fileQueue, running, pipeline,
                 endVars, accepted, started, written, unfedPage, cssVars,
                 parseVars, renderVars>>

\* the fs.stat callback of docFile, for a directory: fs.readdir
StatDirectory(p) ==
  /\ Alive
  /\ p \in statPending
  /\ Exists(p) /\ IsDirectory(p)
  /\ statPending' = statPending \ {p}
  /\ readdirPending' = readdirPending \cup {p}
  /\ UNCHANGED <<args, called, statIssued, fileQueue, running, pipeline,
                 endVars, accepted, started, written, unfedPage, cssVars,
                 parseVars, renderVars>>

\* the fs.readdir callback: doc() of the children, in the order listed
ReaddirCallback(p) ==
  /\ Alive
  /\ p \in readdirPending
  /\ readdirPending' = readdirPending \ {p}
  /\ statPending' = statPending \cup Range(Children(p))
  /\ statIssued' = statIssued \o Children(p)
  /\ UNCHANGED <<args, called, fileQueue, running, pipeline,
                 endVars, accepted, started, written, unfedPage, cssVars,
                 parseVars, renderVars>>

\* the fs.stat callback of docFile, for anything else: queueFile(filename)
StatFile(p) ==
  /\ Alive
  /\ p \in statPending
  /\ ~(Exists(p) /\ IsDirectory(p))
  /\ statPending' = statPending \ {p}
  /\ SetDS(queueFile(DS, p))
  /\ UNCHANGED <<args, called, readdirPending, statIssued, endVars, written,
                 unfedPage, cssVars, parseVars, renderVars>>

\* the fs.readFile callback of generateDoc, without error: parseSections,
\* then highlight spawns pygmentize and, pyg.stdin being writable, feeds it
ReadCallback(r) ==
  /\ Alive
  /\ r \in pipeline
  /\ r.stage = "read"
  /\ Exists(r.file)
  /\ pipeline' = (pipeline \ {r}) \cup {[r EXCEPT !.stage = "highlight", !.fed = TRUE]}
  /\ UNCHANGED <<args, called, walkVars, fileQueue, running, endVars,
                 accepted, started, written, unfedPage, cssVars, parseVars, renderVars>>

\* the same callback when pyg.stdin.writable is false: highlight hooks up its
\* listeners, writes nothing and returns
ReadCallbackUnwritable(r) ==
  /\ Alive
  /\ r \in pipeline
  /\ r.stage = "read"
  /\ Exists(r.file)
  /\ pipeline' = (pipeline \ {r}) \cup {[r EXCEPT !.stage = "highlight"]}
  /\ UNCHANGED <<args, called, walkVars, fileQueue, running, endVars,
                 accepted, started, written, unfedPage, cssVars, parseVars, renderVars>>

\* the fs.readFile callback with an error: if(err) throw err
ReadError(r) ==
  /\ Alive
  /\ r \in pipeline
  /\ r.stage = "read"
  /\ ~Exists(r.file)
  /\ crashed' = TRUE
  /\ UNCHANGED <<args, called, walkVars, fileQueue, running, pipeline, exited,
                 accepted, started, written, unfedPage, cssVars, parseVars, renderVars>>

\* the 'error' listener of pyg.stdin, after a write: console.error and
\* process.exit(1)
StdinError(r) ==
  /\ Alive
  /\ r \in pipeline
  /\ r.stage = "highlight"
  /\ r.fed
  /\ exited' = TRUE
  /\ UNCHANGED <<args, called, walkVars, fileQueue, running, pipeline, crashed,
                 accepted, started, written, unfedPage, cssVars, parseVars, renderVars>>

\* pyg emits 'error' (the process could not be started): highlight has set
\* no listener for it, so the event is an uncaught exception
PygError(r) ==
  /\ Alive
  /\ r \in pipeline
  /\ r.stage = "highlight"
  /\ crashed' = TRUE
  /\ UNCHANGED <<args, called, walkVars, fileQueue, running, pipeline, exited,
                 accepted, started, written, unfedPage, cssVars, parseVars, renderVars>>

\* A callback that moves a chain from one stage to the next.
Advance(r, from, to) ==
  /\ Alive
  /\ r \in pipeline
  /\ r.stage = from
  /\ pipeline' = (pipeline \ {r}) \cup {[r EXCEPT !.stage = to]}
  /\ UNCHANGED <<args, called, walkVars, fileQueue, running, endVars,
                 accepted, started, written, unfedPage, parseVars, renderVars>>

\* pyg emits 'exit': the callback of highlight calls renderHtml, which
\* renders the page, calls mkdirp and calls fs.stat for doc-style.css
PygExit(r) ==
  /\ Advance(r, "highlight", "mkdirp")
  /\ cssPending' = [cssPending EXCEPT !["stat"] = @ + 1]
  /\ UNCHANGED <<cssPresent, cssCopies>>

\* the mkdirp callback: fs.unlink(outFile)
MkdirpCallback(r) == Advance(r, "mkdirp", "unlink") /\ UNCHANGED cssVars

\* the fs.unlink callback: fs.writeFile(outFile, html)
UnlinkCallback(r) == Advance(r, "unlink", "write") /\ UNCHANGED cssVars

\* the fs.writeFile callback: the page is written; cb() is self.nextFile()
WriteCallback(r) ==
  /\ Alive
  /\ r \in pipeline
  /\ r.stage = "write"
  /\ written' = Append(written, r.file)
  /\ unfedPage' = (unfedPage \/ ~r.fed)
  /\ SetDS(nextFile([DS EXCEPT !.pipeline = @ \ {r}]))
  /\ UNCHANGED <<args, called, walkVars, endVars, cssVars, parseVars, renderVars>>

\* A stylesheet callback of stage from fires and leaves the driver alone.
CssStep(from) ==
  /\ Alive
  /\ cssPending[from] > 0
  /\ UNCHANGED <<args, called, walkVars, fileQueue, running, pipeline, endVars,
                 accepted, started, written, unfedPage, parseVars, renderVars>>

\* the fs.stat callback for doc-style.css, without error: nothing to do
CssStatFound ==
  /\ CssStep("stat")
  /\ cssPresent
  /\ cssPending' = [cssPending EXCEPT !["stat"] = @ - 1]
  /\ UNCHANGED <<cssPresent, cssCopies>>

\* the fs.stat callback for doc-style.css with an error: fs.readFile(style.css)
CssStatMissing ==
  /\ CssStep("stat")
  /\ ~cssPresent
  /\ cssPending' = [cssPending EXCEPT !["stat"] = @ - 1, !["read"] = @ + 1]
  /\ UNCHANGED <<cssPresent, cssCopies>>

\* the fs.readFile callback for style.css: fs.writeFile(doc-style.css, file)
CssReadCallback ==
  /\ CssStep("read")
  /\ cssPending' = [cssPending EXCEPT !["read"] = @ - 1, !["write"] = @ + 1]
  /\ cssCopies' = cssCopies + 1
  /\ UNCHANGED cssPresent

\* fs.writeFile(doc-style.css) completes
CssWritten ==
  /\ CssStep("write")
  /\ cssPending' = [cssPending EXCEPT !["write"] = @ - 1]
  /\ cssPresent' = TRUE
  /\ UNCHANGED cssCopies

Stages == {"read", "highlight", "mkdirp", "unlink", "write"}
AllPaths == RootEntries \cup Range(Children(pLib))
Chains == [file : AllPaths, stage : Stages, fed : BOOLEAN]

\* The callbacks that fire when every file can be read and pygmentize can be
\* started, is fed and exits.
NextDriverNormal ==
  \/ Doc
  \/ \E p \in AllPaths : StatDirectory(p)
  \/ \E p \in AllPaths : ReaddirCallback(p)
  \/ \E p \in AllPaths : StatFile(p)
  \/ \E r \in Chains : ReadCallback(r)
  \/ \E r \in Chains : PygExit(r)
  \/ \E r \in Chains : MkdirpCallback(r)
  \/ \E r \in Chains : UnlinkCallback(r)
  \/ \E r \in Chains : WriteCallback(r)
  \/ CssStatFound
  \/ CssStatMissing
  \/ CssReadCallback
  \/ CssWritten

NextDriver ==
  \/ NextDriverNormal
  \/ \E r \in Chains : ReadCallbackUnwritable(r)
  \/ \E r \in Chains : ReadError(r)
  \/ \E r \in Chains : StdinError(r)
  \/ \E r \in Chains : PygError(r)

SpecDriver == InitDriver /\ [][NextDriver]_vars

\* The driver when nothing fails: every file named exists and can be read,
\* and every pygmentize that is spawned exits, whether it was fed or not.
InitDriverLive ==
  /\ InitDriver
  /\ \A k \in DOMAIN args : Exists(args[k])

NextDriverLive ==
  \/ NextDriverNormal
  \/ \E r \in Chains : ReadCallbackUnwritable(r)

\* node's event loop runs every callback that is pending, and pygmentize
\* exits: an action that stays enabled is taken.
FairDriver ==
  /\ WF_vars(Doc)
  /\ WF_vars(\E p \in AllPaths : StatDirectory(p) \/ ReaddirCallback(p) \/ StatFile(p))
  /\ WF_vars(\E r \in Chains : ReadCallback(r) \/ ReadCallbackUnwritable(r))
  /\ WF_vars(\E r \in Chains : PygExit(r))
  /\ WF_vars(\E r \in Chains : MkdirpCallback(r) \/ UnlinkCallback(r) \/ WriteCallback(r))
  /\ WF_vars(CssStatFound \/ CssStatMissing \/ CssReadCallback \/ CssWritten)

SpecDriverLive == InitDriverLive /\ [][NextDriverLive]_vars /\ FairDriver

\* ------------------------------------------------------------------------
\* generateDoc and renderHtml on path strings: the output file of a page and
\* the prefix that leads from its directory back to the output root
\* ------------------------------------------------------------------------
DotDotSlash == <<".", ".", "/">>

\* new Docker(inDir, outDir), about to call generateDoc(docFilename, cb)
InitRender ==
  /\ ParseIdle
  /\ args = << >>
  /\ cssPresent = FALSE
  /\ InitDocker
  /\ \E d \in InDirArgs : inDir = StripSlash(d)
  /\ outDir \in OutDirArgs
  /\ docFilename \in RenderFiles
  /\ filename = << >>
  /\ renderOutFile = << >>
  /\ renderOutDir = << >>
  /\ relDir = << >>
  /\ renderPc = "generateDoc"

\* generateDoc: filename = path.join(this.inDir, filename)
GenerateDocJoin ==
  /\ renderPc = "generateDoc"
  /\ filename' = path_join(inDir, docFilename)
  /\ renderPc' = "renderHtml"
  /\ UNCHANGED <<inDir, outDir, docFilename, renderOutFile, renderOutDir, relDir,
                 parseVars, driverVars>>

\* renderHtml: var outFile = this.outFile(filename);
\* var outDir = path.dirname(outFile); var relDir = '';
RenderHtmlStart ==
  /\ renderPc = "renderHtml"
  /\ renderOutFile' = outFile(inDir, outDir, filename)
  /\ renderOutDir' = path_dirname(renderOutFile')
  /\ relDir' = << >>
  /\ renderPc' = "while"
  /\ UNCHANGED <<inDir, outDir, docFilename, filename, parseVars, driverVars>>

\* path.join(outDir, relDir).replace(/\/$/,'') !== this.outDir.replace(/\/$/,'')
RelDirCond ==
  StripSlash(path_join(renderOutDir, relDir)) # StripSlash(outDir)

\* Number of "../" in relDir.
NumUps(r) == Len(r) \div 3

\* the body of the loop: relDir += '../'
RelDirStep ==
  /\ renderPc = "while"
  /\ RelDirCond
  /\ NumUps(relDir) < MaxRelDir
  /\ relDir' = relDir \o DotDotSlash
  /\ UNCHANGED <<inDir, outDir, docFilename, filename, renderOutFile,
                 renderOutDir, renderPc, parseVars, driverVars>>

\* the condition of the loop is false: renderTemplate is called with relDir
RelDirDone ==
  /\ renderPc = "while"
  /\ ~RelDirCond
  /\ renderPc' = "renderTemplate"
  /\ UNCHANGED <<inDir, outDir, docFilename, filename, renderOutFile,
                 renderOutDir, relDir, parseVars, driverVars>>

NextRender ==
  \/ GenerateDocJoin
  \/ RenderHtmlStart
  \/ RelDirStep
  \/ RelDirDone

SpecRender == InitRender /\ [][NextRender]_vars

\* ------------------------------------------------------------------------
\* Properties of parseSections
\* ------------------------------------------------------------------------
\* The sections built so far and the accumulator; once parseSections has
\* returned, the returned sequence.
AllSections == IF pc = "done" THEN sections ELSE Append(sections, section)

\* The indices of the lines that contributed to the doc or code text of s.
SrcOf(s) == Range(s.docSrc) \cup Range(s.codeSrc)

\* Line k of the input is the latest line that opened a multi-line comment
\* among the first n lines.
IsBlockStart(k, n) ==
  /\ k \in 1..n
  /\ kinds[k] = "multilineStart"
  /\ \A m \in (k + 1)..n : kinds[m] # "multilineStart"

RECURSIVE ConcatCode(_)
ConcatCode(secs) ==
  IF Len(secs) = 0 THEN << >> ELSE secs[1].code \o ConcatCode(Tail(secs))

\* The lines of a text in which every line is followed by its newline.
TerminatedLines(t) == LET r == Split(t) IN SubSeq(r, 1, Len(r) - 1)

RECURSIVE TextOfLines(_)
TextOfLines(ls) ==
  IF Len(ls) = 0 THEN << >> ELSE ls[1] \o <<NL>> \o TextOfLines(Tail(ls))

\* The code lines of the input: the lines that are outside every multi-line
\* comment, open none, and are not comment lines (a line matching the ignore
\* pattern is a comment line).
RECURSIVE OrigCodeLines(_, _, _)
OrigCodeLines(lines, k, inMl) ==
  IF k > Len(lines) THEN << >>
  ELSE IF inMl THEN OrigCodeLines(lines, k + 1, ~multilineEnd(lines[k]))
  ELSE IF multilineStart(lines[k]) /\ ~multilineEnd(lines[k])
    THEN OrigCodeLines(lines, k + 1, TRUE)
  ELSE IF commentRegex(lines[k]) \/ commentsIgnore(lines[k])
    THEN OrigCodeLines(lines, k + 1, FALSE)
  ELSE <<lines[k]>> \o OrigCodeLines(lines, k + 1, FALSE)

RECURSIVE IsSubseq(_, _)
IsSubseq(a, b) ==
  IF Len(a) = 0 THEN TRUE
  ELSE IF Len(b) = 0 THEN FALSE
  ELSE IF a[1] = b[1] THEN IsSubseq(Tail(a), Tail(b))
  ELSE IsSubseq(a, Tail(b))

NonBlankLines(ls) == SelectSeq(ls, LAMBDA l : ~IsBlank(l))

\* C1: parseSections returns at least one section, and the last returned
\* section is the accumulator, whatever it holds and whatever the parser's
\* state is at the end of the input.
C1_AtLeastOneSection ==
  pc = "done" => /\ Len(sections) >= 1
                 /\ sections[Len(sections)] = section

\* The input ends inside a multi-line comment, a section with code was
\* dropped before it, and the empty accumulator is the only section returned.
C1_Witness ==
  /\ pc = "done"
  /\ inMultiLineComment
  /\ "code" \in Range(kinds)
  /\ section.docs = << >> /\ section.code = << >>
  /\ sections = <<section>>

\* C2 (as claimed): the code texts of the returned sections, concatenated,
\* are exactly the code lines of the input, each followed by its newline.
C2_RoundTripExact ==
  pc = "done" =>
    ConcatCode(sections) = TextOfLines(OrigCodeLines(codeLines, 1, FALSE))

\* C2 (amended): the returned code lines are the code lines of the input in
\* their original order, none duplicated, with nothing missing but
\* white-space-only lines.
C2_RoundTripModuloBlank ==
  pc = "done" =>
    LET out == TerminatedLines(ConcatCode(sections))
        orig == OrigCodeLines(codeLines, 1, FALSE)
    IN  /\ ConcatCode(sections) = TextOfLines(out)
        /\ IsSubseq(out, orig)
        /\ NonBlankLines(out) = NonBlankLines(orig)

\* A blank code line was lost with its dropped section, and a code line that
\* is not blank was returned.
C2_Witness ==
  /\ pc = "done"
  /\ ConcatCode(sections) # TextOfLines(OrigCodeLines(codeLines, 1, FALSE))
  /\ \E s \in Range(sections) : ~IsBlank(s.code)

\* C3 (as claimed): no line matching the ignore pattern contributes to the
\* doc text or to the code text of a section: its characters occur in neither.
C3_IgnoredNeverContributes ==
  \A n \in 1..Len(codeLines) :
    commentsIgnore(codeLines[n]) =>
      \A s \in Range(AllSections) :
        /\ ~Contains(s.docs, codeLines[n])
        /\ ~Contains(s.code, codeLines[n])

Text_hello == <<"h", "e", "l", "l", "o", NL>>
C4Input == JoinLines(<<LineComment, LineCode, LineEmpty>>)

\* C4 (as claimed): "// hello\nvar x = 1;\n" yields exactly one section with
\* doc text "hello\n" and code text "var x = 1;\n".
C4_ExampleAsClaimed ==
  (pc = "done" /\ data = C4Input) =>
    /\ Len(sections) = 1
    /\ sections[1].docs = Text_hello
    /\ sections[1].code = LineCode \o <<NL>>

\* C4 (amended): "// hello\nvar x = 1;\n" yields exactly one section with doc
\* text "hello\n" and code text "var x = 1;\n\n": the empty string after the
\* last newline is a line of code too.
C4_Example ==
  (pc = "done" /\ data = C4Input) =>
    /\ Len(sections) = 1
    /\ sections[1].docs = Text_hello
    /\ sections[1].code = LineCode \o <<NL, NL>>

C4_Witness == pc = "done" /\ data = C4Input /\ Len(kinds) = 3

\* The raw text of the lines m..n of the input, each followed by its newline.
RawLines(m, n) == TextOfLines(SubSeq(codeLines, m, n))

EndsWith(t, suffix) ==
  /\ Len(suffix) <= Len(t)
  /\ SubSeq(t, Len(t) - Len(suffix) + 1, Len(t)) = suffix

\* C5 (as claimed): when a multi-line comment closes and dox fails, the doc
\* text of the section receives the raw block: the opening line, the inner
\* lines and the closing line, each followed by its newline.
C5_RawBlockVerbatim ==
  (pc = "loop" /\ i > 1 /\ kinds[i - 1] = "multilineEndCatch") =>
    \A k \in 1..(i - 1) :
      IsBlockStart(k, i - 1) => EndsWith(section.docs, RawLines(k, i - 1))

\* C6: while a multi-line comment is open, and so at the end of an input that
\* never closes it, every line from the opening line on is held in the
\* multi-line buffer only and is in the doc or code text of no section; and
\* the lines absorbed after the opening line leave the sections built before
\* it as they were: they are returned with the accumulator after them.
C6_OpenBlockAbsorbs ==
  [][ /\ inMultiLineComment' =>
           \A k \in 1..Len(kinds') :
             (kinds'[k] = "multilineStart"
                /\ \A m \in (k + 1)..Len(kinds') : kinds'[m] # "multilineStart") =>
               /\ Range(multiLineSrc') = k..Len(kinds')
               /\ \A s \in Range(sections') \cup {section'} :
                    SrcOf(s) \cap (k..Len(codeLines')) = {}
      /\ (inMultiLineComment /\ inMultiLineComment') =>
           /\ section' = section
           /\ \/ sections' = sections
              \/ pc' = "done" /\ sections' = Append(sections, section)
    ]_vars

\* An input whose last two lines are a line opening a multi-line comment and
\* a line of code: the code line was absorbed, and the section built before
\* the opening line is returned.
C6_Witness ==
  /\ pc = "done"
  /\ inMultiLineComment
  /\ Len(codeLines) = 3
  /\ multiLineSrc = <<2, 3>>
  /\ codeLines[3] = LineCode
  /\ Len(sections) = 2
  /\ sections[1].codeSrc = <<1>>

\* Line n is a single-line comment line and a single-line comment line
\* before it is separated from it by no line of code.
ContinuesRun(ks, n) ==
  /\ ks[n] = "singleLine"
  /\ \E j \in 1..(n - 1) :
       /\ ks[j] = "singleLine"
       /\ \A m \in (j + 1)..(n - 1) : ks[m] # "code"

\* C7: a single-line comment line that continues a run of comment lines (no
\* line of code since an earlier comment line) opens no section: nothing is
\* pushed, and its text is appended to the doc text of the accumulator, which
\* is the section that holds the earlier comment lines of the run.
C7_OneSectionPerCommentRun ==
  [][ (Len(kinds') = Len(kinds) + 1 /\ ContinuesRun(kinds', Len(kinds'))) =>
        /\ sections' = sections
        /\ section'.code = section.code
        /\ section'.docs = section.docs \o StripComment(codeLines[i]) \o <<NL>>
        /\ \A j \in 1..Len(kinds) :
             ( /\ kinds[j] = "singleLine"
               /\ \A m \in (j + 1)..Len(kinds) : kinds[m] # "code" ) =>
               j \in Range(section'.docSrc)
    ]_vars

\* Code, then a run of two comment lines: the first comment line closed the
\* section of the code, the second joined the first in the new section.
C7_Witness ==
  /\ pc = "done"
  /\ kinds = <<"code", "singleLine", "singleLine">>
  /\ Len(sections) = 2
  /\ sections[2].docSrc = <<2, 3>>

\* The rest of the input, lines[k..], parsed from state a and from state b
\* with the same dox outcome for each multi-line comment that closes, returns
\* as many sections from a as from b, whatever the outcomes are.
RECURSIVE SameCount(_, _, _, _)
SameCount(a, b, lines, k) ==
  IF k > Len(lines) THEN Len(Finish(a)) = Len(Finish(b))
  ELSE IF BranchOf(a, lines[k]) = "multilineEnd"
    THEN \A dox \in DoxOutcomes :
           SameCount(Step(a, k, lines[k], dox), Step(b, k, lines[k], dox),
                     lines, k + 1)
  ELSE SameCount(Step(a, k, lines[k], DoxThrow), Step(b, k, lines[k], DoxThrow),
                 lines, k + 1)

BlankLines == {LineEmpty, LineSpace}

\* C8: at a point of the input where the section being accumulated is blank
\* (its doc text and its code text are white space only), one more blank line
\* does not change the number of sections returned, whatever follows.
C8_BlankLineKeepsCount ==
  (pc = "loop" /\ IsBlank(section.docs) /\ IsBlank(section.code)) =>
    \A bl \in BlankLines :
      SameCount(PS, Step(PS, 0, bl, DoxThrow), codeLines, i)

\* A blank section is being accumulated, it already holds a blank doc line,
\* a comment line follows, and the input yields two sections: with one more
\* blank line here the blank section is dropped where it was kept on.
C8_Witness ==
  /\ pc = "loop"
  /\ i = 2
  /\ Len(codeLines) = 3
  /\ kinds = <<"singleLine">>
  /\ IsBlank(section.docs) /\ section.code = << >>
  /\ codeLines[2] = LineComment
  /\ codeLines[3] = LineCode
  /\ Step(PS, 0, LineEmpty, DoxThrow).section.code # << >>

\* ------------------------------------------------------------------------
\* Properties of the file driver
\* ------------------------------------------------------------------------
IsPrefix(a, b) == Len(a) <= Len(b) /\ SubSeq(b, 1, Len(a)) = a

\* C9: at most one file is inside generateDoc's chain of callbacks at any
\* time, and generateDoc is called for a file only when no file is in the
\* chain or in the very step that has written the page of the file that was.
C9_OneFileAtATime ==
  [][ /\ Cardinality(pipeline') <= 1
      /\ started' # started =>
           \/ pipeline = {}
           \/ /\ written' # written
              /\ \A r \in pipeline : written' = Append(written, r.file)
    ]_vars

\* A file is being written while another waits in the queue and a stat
\* callback that will queue a third is still pending.
C9_Witness ==
  /\ \E r \in pipeline : r.stage = "write"
  /\ Len(fileQueue) >= 1
  /\ \E p \in statPending : canHandleFile(p)
  /\ ~crashed

\* C10: generateDoc is called for the files in the order queueFile accepted
\* them: the files started are always a prefix of the files accepted.
C10_FifoOrder == IsPrefix(started, accepted)

\* Three files were accepted, two of them while the first was in progress,
\* and generateDoc has been called for all three.
C10_Witness ==
  /\ Len(accepted) = 3
  /\ started = accepted
  /\ Len(written) = 2
  /\ ~crashed

\* ------------------------------------------------------------------------
\* More properties of parseSections
\* ------------------------------------------------------------------------
\* The text has a character that is not white space.
HasNonSpace(t) == \E k \in 1..Len(t) : ~IsSpace(t[k])

\* The step is an iteration of the loop that took branch b.
Took(b) == kinds' = Append(kinds, b)

\* C14: at a section boundary (a single-line comment line or a line opening
\* a multi-line comment, outside a multi-line comment), a section without code
\* stays the accumulator and nothing is pushed; a section with code is
\* replaced by a fresh one, and is pushed if and only if its code text or its
\* doc text has a character that is not white space.
C14_FlushRule ==
  [][ (Took("singleLine") \/ Took("multilineStart")) =>
        LET kept == IF section.code = << >> THEN section ELSE EmptySection
        IN  /\ sections' =
                 IF /\ section.code # << >>
                    /\ (HasNonSpace(section.code) \/ HasNonSpace(section.docs))
                   THEN Append(sections, section) ELSE sections
            /\ section'.code = kept.code
            /\ section'.codeSrc = kept.codeSrc
            /\ Took("multilineStart") => section' = kept
            /\ Took("singleLine") =>
                 section'.docs = kept.docs \o StripComment(codeLines[i]) \o <<NL>>
    ]_vars

\* A comment line found a section without code and joined it; the next
\* comment line found it with blank code under a doc text that is not blank,
\* and pushed it.
C14_Witness ==
  /\ pc = "done"
  /\ kinds = <<"singleLine", "code", "singleLine">>
  /\ codeLines[1] = LineComment /\ codeLines[2] = LineSpace
  /\ Len(sections) = 2
  /\ sections[1].docSrc = <<1>> /\ sections[1].codeSrc = <<2>>

\* The loop is about to take a line that matches both multilineStart and
\* multilineEnd, outside a multi-line comment.
TakesSelfClosing ==
  /\ pc = "loop" /\ Len(kinds') = Len(kinds) + 1
  /\ ~inMultiLineComment
  /\ multilineStart(codeLines[i]) /\ multilineEnd(codeLines[i])

\* C15 (as claimed): outside a multi-line comment, a line that matches both
\* multilineStart and multilineEnd does not open a multi-line comment and is
\* taken as a single-line comment or as code.
C15_SelfClosingCommentOrCode ==
  [][ TakesSelfClosing =>
        /\ ~inMultiLineComment'
        /\ ~Took("multilineStart")
        /\ Took("singleLine") \/ Took("code")
    ]_vars

\* C15 (amended): outside a multi-line comment, a line that matches both
\* multilineStart and multilineEnd does not open a multi-line comment; it is handled by the
\* branches that follow: as a single-line comment if it matches commentRegex
\* (and not commentsIgnore), otherwise by the code branch, which appends it to
\* the code text without a section boundary, or drops it if it matches
\* commentsIgnore: such a line is neither comment nor code.
C15_SelfClosingNotMultiline ==
  [][ TakesSelfClosing =>
        /\ ~inMultiLineComment'
        /\ multiLine' = << >>
        /\ ~Took("multilineStart")
        /\ Took("singleLine") <=>
             (commentRegex(codeLines[i]) /\ ~commentsIgnore(codeLines[i]))
        /\ Took("code") <=> ~commentRegex(codeLines[i])
        /\ Took("code") =>
             /\ sections' = sections
             /\ section' = [section EXCEPT
                              !.code = @ \o codeLines[i] \o <<NL>>,
                              !.codeSrc = Append(@, i)]
        /\ Took("ignored") => (sections' = sections /\ section' = section)
    ]_vars

\* "///**/" was taken as a single-line comment, "/* x */" after it as code of
\* the same section, and "//=/**/" after it was dropped.
C15_Witness ==
  /\ pc = "done"
  /\ codeLines = <<LineSelfClosingComment, LineSelfClosing, LineSelfClosingIgnore>>
  /\ kinds = <<"singleLine", "code", "ignored">>
  /\ Len(sections) = 1
  /\ sections[1].docSrc = <<1>> /\ sections[1].codeSrc = <<2>>
  /\ ~inMultiLineComment

\* C18: every returned section but the last has code text that is not empty,
\* and a character that is not white space in its code text or its doc text.
C18_OnlyLastMayBeBlank ==
  \A k \in 1..Len(sections) :
    (pc = "done" => k < Len(sections)) =>
      /\ sections[k].code # << >>
      /\ HasNonSpace(sections[k].code) \/ HasNonSpace(sections[k].docs)

\* Two sections are returned and the last one is blank, with code text that
\* is not empty.
C18_Witness ==
  /\ pc = "done"
  /\ Len(sections) = 2
  /\ sections[2].code # << >>
  /\ ~HasNonSpace(sections[2].code) /\ ~HasNonSpace(sections[2].docs)

\* C19: in every section the lines that went to the doc text come before the
\* lines that went to the code text; a section that has code gets no more doc
\* text: the accumulator's doc text changes only with a fresh accumulator,
\* and a pushed section is never touched again.
C19_DocsBeforeCode ==
  [][ /\ \A s \in Range(sections') \cup {section'} :
           \A d \in Range(s.docSrc) : \A c \in Range(s.codeSrc) : d < c
      /\ (section.code # << >> /\ section'.docs # section.docs) =>
           /\ section'.code = << >> /\ section'.codeSrc = << >>
           /\ \A d \in Range(section'.docSrc) : d = i
      /\ pc = "loop" => SubSeq(sections', 1, Len(sections)) = sections
    ]_vars

\* Code, then a multi-line comment that closes: the comment went to the doc
\* text of a second section, not to the section of the code.
C19_Witness ==
  /\ pc = "done"
  /\ Len(kinds) = 3
  /\ kinds[1] = "code" /\ kinds[2] = "multilineStart"
  /\ Len(sections) = 2
  /\ sections[1].codeSrc = <<1>> /\ sections[1].docSrc = << >>
  /\ sections[2].docSrc = <<2, 3>>

\* The position of x in the sequence q, 0 if x is not in q.
PosIn(q, x) == IF \E k \in 1..Len(q) : q[k] = x
                 THEN CHOOSE k \in 1..Len(q) : q[k] = x ELSE 0

\* x is in q, and y is not in q before x.
Before(q, x, y) == PosIn(q, x) > 0 /\ (PosIn(q, y) = 0 \/ PosIn(q, x) < PosIn(q, y))

\* The k-th entry fs.readdir lists in the directory lib, as a path.
ListedChild(k) == PathJoin(pLib, Listing(pLib)[k])

\* C11 (as claimed): for two files a directory lists in the order A, B,
\* queueFile is called for A before it is called for B.
C11_QueuedInListingOrder ==
  \A j, k \in 1..Len(Listing(pLib)) :
    (j < k /\ PosIn(accepted, ListedChild(k)) > 0) =>
      Before(accepted, ListedChild(j), ListedChild(k))

\* C11 (amended): fs.stat is called for the children of a directory in the
\* order the directory lists them, and queueFile is called for a file in the
\* fs.stat callback of that file: the children are queued in the order in
\* which their fs.stat callbacks fire.
C11_QueuedInStatOrder ==
  [][ /\ \A j, k \in 1..Len(Listing(pLib)) :
           (j < k /\ PosIn(statIssued', ListedChild(k)) > 0) =>
             Before(statIssued', ListedChild(j), ListedChild(k))
      /\ accepted' # accepted =>
           \E p \in statPending :
             /\ statPending' = statPending \ {p}
             /\ accepted' = Append(accepted, p)
    ]_vars

\* The directory lists c.js before d.js and d.js was queued first.
C11_Witness ==
  /\ Len(accepted) >= 2
  /\ accepted[1] = ListedChild(2)
  /\ accepted[2] = ListedChild(1)
  /\ PosIn(statIssued, ListedChild(1)) < PosIn(statIssued, ListedChild(2))

\* C12 (as claimed): no page is written for a file whose code could not be
\* handed to the highlighter.
C12_NoPageWithoutHighlighter == ~unfedPage

\* C13 (as claimed): doc-style.css is copied at most once in a run.
C13_StylesheetCopiedOnce == cssCopies <= 1

Depth(f) == Cardinality({ k \in 1..Len(f) : f[k] = "/" })

\* "../" n times.
RECURSIVE Ups(_)
Ups(n) == IF n = 0 THEN << >> ELSE DotDotSlash \o Ups(n - 1)

\* C17 (as claimed): the loop of renderHtml that computes relDir ends, and
\* ends with one "../" for every directory between the directory of the
\* output file and the output root: while it runs relDir has no more "../"
\* than there are such directories, and renderTemplate gets exactly that
\* many.
C17_RelDirExact ==
  /\ renderPc = "while" => NumUps(relDir) <= Depth(docFilename)
  /\ renderPc = "renderTemplate" => relDir = Ups(Depth(docFilename))

\* C20: whenever running is false, the queue is empty and no file is inside
\* generateDoc's chain of callbacks.
C20_RunningFlagConsistent ==
  ~running => (fileQueue = << >> /\ pipeline = {})

\* Between two chains: a page has been written, the flag is down again, and
\* a stat callback that will queue another file is still pending.
C20_Witness ==
  /\ ~running
  /\ Len(written) >= 1
  /\ \E p \in statPending : canHandleFile(p) /\ Exists(p)
  /\ Alive

====
